---------------------------- MODULE Spec2Model ----------------------------
(***************************************************************************)
(* Model of fireworks_app.py (class FireworksApp): rockets rise on a Tk    *)
(* canvas, explode into 30 particles, and the particles drift until they   *)
(* leave the canvas.  Every handler is a Tk `after` callback; a handler    *)
(* and all the calls it makes run to completion as one step.               *)
(*                                                                         *)
(* Lengths on the canvas are kept in tenths of a canvas unit (Scale), so   *)
(* that the per-frame displacement dx * 0.1 of an integer velocity is an   *)
(* integer.  Velocities are drawn from vectors with integer components.    *)
(***************************************************************************)
EXTENDS Integers, Sequences, FiniteSets, Bags, TLC

(***************************************************************************)
(* Bounds of the model.                                                    *)
(***************************************************************************)
\* how many rockets start_fireworks may spawn in one run
MaxRockets == 2
\* how many different outcomes of the random source an explosion may draw
NumSeeds == 2
\* how many times the user may pick a resolution from the menu in one run
MaxResolutionChanges == 1

(***************************************************************************)
(* Program constants.                                                      *)
(***************************************************************************)
Scale == 10            \* canvas tenths per canvas unit (the factor 0.1)
NumParticles == 30     \* range(30)
RocketStep == 10       \* canvas.move(rocket, 0, -10); y_start - 10
SpawnMargin == 100     \* random.randint(100, self.width - 100)
TargetMin == 100       \* random.randint(100, 300)
TargetMax == 300
ScreenMargin == 50     \* screen_width - 50
DistanceMin == 20      \* random.uniform(20, 100)
DistanceMax == 100
ParticleSize == 5      \* create_oval(x, y_target, x + 5, y_target + 5)
RocketHalfWidth == 2   \* create_oval(x - 2, ..., x + 2, ...)
RocketHalfHeight == 10 \* create_oval(..., y_start - 10, ..., y_start + 10)

colors == <<"red", "orange", "yellow", "green", "blue", "purple", "white">>

resolutions ==
    [r \in {"360P", "HD", "FULLHD", "2K", "4K"} |->
        CASE r = "360P"   -> <<800, 600>>
          [] r = "HD"     -> <<1280, 720>>
          [] r = "FULLHD" -> <<1920, 1080>>
          [] r = "2K"     -> <<2560, 1440>>
          [] r = "4K"     -> <<3840, 2160>>]

\* resolutions.get(resolution, resolutions["HD"])
resolutions_get(resolution) ==
    IF resolution \in DOMAIN resolutions THEN resolutions[resolution]
    ELSE resolutions["HD"]

Min_Max(a, b) == IF a >= b THEN a ELSE b

Min(a, b) == IF a <= b THEN a ELSE b

\* min(self.width, screen_width - 50), min(self.height, screen_height - 50)
FitToScreen(size, mon) ==
    <<Min(size[1], mon[1] - ScreenMargin), Min(size[2], mon[2] - ScreenMargin)>>

(***************************************************************************)
(* The environment: what screeninfo.get_monitors()[0] may report, and the  *)
(* values the random source may return.                                    *)
(***************************************************************************)
Monitors == {<<250, 170>>, <<250, 165>>, <<240, 130>>}

\* sample of random.randint(a, b): both ends of the range;
\* empty when a > b (randint raises ValueError)
randint(a, b) == {v \in {a, b} : a <= v /\ v <= b}

\* directions (5 cos t, 5 sin t) with integer components; y grows downwards
Angles == << <<5, 0>>, <<4, 3>>, <<3, 4>>, <<0, 5>>, <<-3, 4>>, <<-4, 3>>,
             <<-5, 0>>, <<-4, -3>>, <<-3, -4>>, <<0, -5>>, <<3, -4>>, <<4, -3>> >>
\* sample of random.uniform(20, 100)
Distances == <<DistanceMin, 80, DistanceMax>>

\* the outcome of the scenarios of the specification: every particle draws
\* distance 50, so the particle drawn at angle 0 has velocity (50, 0)
ScenarioSeeds == {-1}

\* The i-th draws (i = 0 .. 29) of one explosion under outcome `seed` of the
\* random source.  The slowest particles are drawn at the steep downward
\* angles only, which keeps the number of frames of an explosion small.
RandAngle(seed, i) == Angles[((i + seed) % Len(Angles)) + 1]
RandDistance(seed, i) ==
    IF seed \in ScenarioSeeds THEN 50
    ELSE IF RandAngle(seed, i)[2] >= 4 /\ ((i \div Len(Angles)) + seed) % 2 = 0
         THEN Distances[1]
         ELSE Distances[2 + ((i + seed) % 2)]
RandColor(seed, i) == colors[((3 * i + seed) % Len(colors)) + 1]

Velocity_CosTwice(distance, angle) ==
    <<(distance * angle[1]) \div 5, (distance * angle[1]) \div 5>>

\* dx = distance * cos(angle), dy = distance * sin(angle)
Velocity(distance, angle) == <<(distance * angle[1]) \div 5, (distance * angle[2]) \div 5>>


(***************************************************************************)
(* State.                                                                  *)
(*   width, height  self.width, self.height                                *)
(*   canvas         the items of self.canvas: id |-> [coords, fill, moves] *)
(*                  (moves counts the canvas.move calls on the item)       *)
(*   nextId         the id Tk gives the next canvas item                   *)
(*   timers         the bag of pending root.after callbacks                *)
(*   pc             "init" after __init__, "mainloop" inside run,          *)
(*                  "crashed" when run raised before mainloop              *)
(*   faulted        a start_fireworks callback raised (Tk reports it and   *)
(*                  the main loop goes on)                                 *)
(* History, written by the handlers and read only by the properties:       *)
(*   rlog           per rocket: spawn x, target, the tracked y of every    *)
(*                  animate_rocket frame run so far, and call counts       *)
(*   plog           per particle: its explosion, origin, velocity, colour  *)
(*                  as explode created it                                  *)
(*   picks          how many times change_resolution has run               *)
(***************************************************************************)
VARIABLES width, height, canvas, nextId, timers, pc, faulted, rlog, plog, picks

vars == <<width, height, canvas, nextId, timers, pc, faulted, rlog, plog, picks>>

\* the part of the state the handlers of the animation read and write
Here == [width |-> width, height |-> height, canvas |-> canvas, nextId |-> nextId,
         timers |-> timers, rlog |-> rlog, plog |-> plog]

\* the handlers leave the state T behind
Apply(T) ==
    \E S \in {T} :
        /\ width' = S.width
        /\ height' = S.height
        /\ canvas' = S.canvas
        /\ nextId' = S.nextId
        /\ timers' = S.timers
        /\ rlog' = S.rlog
        /\ plog' = S.plog

(***************************************************************************)
(* The canvas and the timer queue (tkinter).                               *)
(***************************************************************************)
\* canvas.coords(item): the item's coordinates, empty when it does not exist
canvas_coords(c, item) == IF item \in DOMAIN c THEN c[item].coords ELSE <<>>

canvas_move_Nowhere(c, item, mx, my) == c

canvas_move_All(c, item, mx, my) ==
    IF item \in DOMAIN c
    THEN [i \in DOMAIN c |->
             [c[i] EXCEPT !.coords = <<@[1] + mx, @[2] + my, @[3] + mx, @[4] + my>>,
                          !.moves = IF i = item THEN @ + 1 ELSE @]]
    ELSE c

\* canvas.move(item, mx, my)
canvas_move(c, item, mx, my) ==
    IF item \in DOMAIN c
    THEN [c EXCEPT ![item].coords = <<@[1] + mx, @[2] + my, @[3] + mx, @[4] + my>>,
                   ![item].moves = @ + 1]
    ELSE c

\* canvas.delete(item); deleting an absent item does nothing
canvas_delete(c, item) == [i \in DOMAIN c \ {item} |-> c[i]]

\* canvas.create_oval(x1, y1, x2, y2, fill=fill): the new item gets id `id`
canvas_create_oval(c, id, x1, y1, x2, y2, fill) ==
    [i \in DOMAIN c \cup {id} |->
        IF i = id THEN [coords |-> <<x1, y1, x2, y2>>, fill |-> fill, moves |-> 0]
        ELSE c[i]]

NoParticles == <<>>

Callback(fn, rocket, x, y_start, y_target, particles) ==
    [fn |-> fn, rocket |-> rocket, x |-> x, y_start |-> y_start,
     y_target |-> y_target, particles |-> particles]

StartFireworksCb == Callback("start_fireworks", 0, 0, 0, 0, NoParticles)

\* root.after(ms, cb): one more pending callback
after(t, cb) == t (+) SetToBag({cb})

\* the main loop takes a due callback off the queue before it runs it
Taken(t, cb) == t (-) SetToBag({cb})

Pending(fn) == {cb \in BagToSet(timers) : cb.fn = fn}

(***************************************************************************)
(* The element of a one-element set.  The handlers below name every        *)
(* intermediate result v of theirs as The({ ... v ... : v \in {result}}),  *)
(* so that it is computed once.                                            *)
(***************************************************************************)
The(S) == CHOOSE r \in S : TRUE

(***************************************************************************)
(* animate_explosion                                                       *)
(***************************************************************************)
FrameDisplacement_Decay(d) == (d * Scale) \div 10 - d \div 20

\* dx * 0.1, in canvas tenths
FrameDisplacement(d) == (d * Scale) \div 10

InBounds_HalfOpen(pos, w, h) ==
    /\ 0 <= pos[1] /\ pos[1] < w * Scale
    /\ 0 <= pos[2] /\ pos[2] < h * Scale

InBounds_Strict(pos, w, h) ==
    /\ 0 < pos[1] /\ pos[1] < w * Scale
    /\ 0 < pos[2] /\ pos[2] < h * Scale

\* 0 <= pos[0] <= self.width and 0 <= pos[1] <= self.height
InBounds(pos, w, h) ==
    /\ 0 <= pos[1] /\ pos[1] <= w * Scale
    /\ 0 <= pos[2] /\ pos[2] <= h * Scale

ShouldReschedule_Always(remaining) == TRUE

\* if remaining_particles:
ShouldReschedule(remaining) == remaining # <<>>

ExplosionStep_Gravity(c, w, h, t, remaining) ==
    LET particle == t[1]
        pos == canvas_coords(c, particle)
    IN  IF pos # <<>>
        THEN The({IF ~InBounds(canvas_coords(moved, particle), w, h)
                  THEN [canvas |-> canvas_delete(moved, particle),
                        remaining |-> remaining]
                  ELSE [canvas |-> moved,
                        remaining |-> Append(remaining, <<t[1], t[2], t[3] + 10>>)] :
               moved \in {canvas_move(c, particle, FrameDisplacement(t[2]),
                                      FrameDisplacement(t[3]))}})
        ELSE [canvas |-> canvas_delete(c, particle), remaining |-> remaining]

ExplosionStep_KeepRemoved(c, w, h, t, remaining) ==
    LET particle == t[1]
        pos == canvas_coords(c, particle)
    IN  IF pos # <<>>
        THEN The({IF ~InBounds(canvas_coords(moved, particle), w, h)
                  THEN [canvas |-> canvas_delete(moved, particle),
                        remaining |-> Append(remaining, t)]
                  ELSE [canvas |-> moved, remaining |-> Append(remaining, t)] :
               moved \in {canvas_move(c, particle, FrameDisplacement(t[2]),
                                      FrameDisplacement(t[3]))}})
        ELSE [canvas |-> canvas_delete(c, particle), remaining |-> remaining]

\* one round of the for loop of animate_explosion, for the triple t =
\* (particle, dx, dy): the canvas and remaining_particles after it
ExplosionStep(c, w, h, t, remaining) ==
    LET particle == t[1]
        dx == t[2]
        dy == t[3]
        pos == canvas_coords(c, particle)
    IN  IF pos # <<>>
        THEN The({IF ~InBounds(canvas_coords(moved, particle), w, h)
                  THEN [canvas |-> canvas_delete(moved, particle),
                        remaining |-> remaining]
                  ELSE [canvas |-> moved, remaining |-> Append(remaining, t)] :
               moved \in {canvas_move(c, particle, FrameDisplacement(dx), FrameDisplacement(dy))}})
        ELSE [canvas |-> canvas_delete(c, particle), remaining |-> remaining]

\* the for loop of animate_explosion from its i-th particle on
RECURSIVE ExplosionLoop(_, _, _, _, _, _)
ExplosionLoop(c, w, h, particles, i, remaining) ==
    IF i > Len(particles) THEN [canvas |-> c, remaining |-> remaining]
    ELSE The({ExplosionLoop(R.canvas, w, h, particles, i + 1, R.remaining) :
            R \in {ExplosionStep(c, w, h, particles[i], remaining)}})

animate_explosion_Twice(S, particles) ==
    The({[S EXCEPT !.canvas = R.canvas,
                   !.timers = IF ShouldReschedule(R.remaining)
                              THEN after(after(@, Callback("animate_explosion", 0, 0, 0, 0,
                                                           R.remaining)),
                                         Callback("animate_explosion", 0, 0, 0, 0,
                                                  R.remaining))
                              ELSE @] :
            R \in {ExplosionLoop(S.canvas, S.width, S.height, particles, 1, <<>>)}})

animate_explosion_SpawnBounds(S, particles) ==
    The({[S EXCEPT !.canvas = R.canvas,
                   !.timers = IF ShouldReschedule(R.remaining)
                              THEN after(@, Callback("animate_explosion", 0, 0, 0, 0,
                                                     R.remaining))
                              ELSE @] :
            R \in {ExplosionLoop(S.canvas, S.width,
                                 S.rlog[S.plog[particles[1][1]].rocket].y_spawn,
                                 particles, 1, <<>>)}})

animate_explosion(S, particles) ==
    The({[S EXCEPT !.canvas = R.canvas,
                   !.timers = IF ShouldReschedule(R.remaining)
                              THEN after(@, Callback("animate_explosion", 0, 0, 0, 0,
                                                     R.remaining))
                              ELSE @] :
            R \in {ExplosionLoop(S.canvas, S.width, S.height, particles, 1, <<>>)}})

(***************************************************************************)
(* explode                                                                 *)
(***************************************************************************)
\* round i (i = 0 .. 29) of the for loop of explode
CreateParticle(S, rocket, x, y_target, seed, i, particles) ==
    LET angle == RandAngle(seed, i)
        distance == RandDistance(seed, i)
        v == Velocity(distance, angle)
        color == RandColor(seed, i)
        particle == S.nextId
        c == canvas_create_oval(S.canvas, particle,
                                x * Scale, y_target * Scale,
                                (x + ParticleSize) * Scale,
                                (y_target + ParticleSize) * Scale, color)
        L == [p \in DOMAIN S.plog \cup {particle} |->
                 IF p = particle
                 THEN [rocket |-> rocket, ox |-> x * Scale, oy |-> y_target * Scale,
                       dx |-> v[1], dy |-> v[2], color |-> color]
                 ELSE S.plog[p]]
    IN  [S |-> [S EXCEPT !.canvas = c, !.nextId = @ + 1, !.plog = L],
         particles |-> Append(particles, <<particle, v[1], v[2]>>)]

\* the for loop of explode from round i on
RECURSIVE CreateParticles(_, _, _, _, _, _, _)
CreateParticles(S, rocket, x, y_target, seed, i, particles) ==
    IF i >= NumParticles THEN [S |-> S, particles |-> particles]
    ELSE The({CreateParticles(N.S, rocket, x, y_target, seed, i + 1, N.particles) :
            N \in {CreateParticle(S, rocket, x, y_target, seed, i, particles)}})

explode(S, rocket, x, y_target, seed) ==
    The({The({animate_explosion(C.S, C.particles) :
                 C \in {CreateParticles(D, rocket, x, y_target, seed, 0, <<>>)}}) :
            D \in {[S EXCEPT !.canvas = canvas_delete(@, rocket),
                             !.rlog[rocket].explodes = @ + 1,
                             !.rlog[rocket].deletes =
                                 IF rocket \in DOMAIN S.canvas THEN @ + 1 ELSE @,
                             !.rlog[rocket].ex = x,
                             !.rlog[rocket].ey = y_target]}})

(***************************************************************************)
(* animate_rocket, create_rocket, start_fireworks                          *)
(***************************************************************************)
Rising_Inclusive(y_start, y_target) == y_start >= y_target

Rising_Inverted(y_start, y_target) == y_start < y_target

\* if y_start > y_target:
Rising(y_start, y_target) == y_start > y_target

NextY_Short(y_start) == y_start - 1

\* y_start - 10
NextY(y_start) == y_start - RocketStep

animate_rocket_AtTrackedY(S, rocket, x, y_start, y_target, seed) ==
    The({IF Rising(y_start, y_target)
         THEN [F EXCEPT !.canvas = canvas_move(@, rocket, 0, -(RocketStep * Scale)),
                        !.rlog[rocket].moves = @ + 1,
                        !.timers = after(@, Callback("animate_rocket", rocket, x,
                                                     NextY(y_start), y_target,
                                                     NoParticles))]
         ELSE explode(F, rocket, x, y_start, seed) :
            F \in {[S EXCEPT !.rlog[rocket].ys = Append(@, y_start)]}})

animate_rocket_Dropped(S, rocket, x, y_start, y_target, seed) ==
    The({IF Rising(y_start, y_target)
         THEN [F EXCEPT !.canvas = canvas_move(@, rocket, 0, -(RocketStep * Scale)),
                        !.rlog[rocket].moves = @ + 1]
         ELSE explode(F, rocket, x, y_target, seed) :
            F \in {[S EXCEPT !.rlog[rocket].ys = Append(@, y_start)]}})

animate_rocket(S, rocket, x, y_start, y_target, seed) ==
    The({IF Rising(y_start, y_target)
         THEN [F EXCEPT !.canvas = canvas_move(@, rocket, 0, -(RocketStep * Scale)),
                        !.rlog[rocket].moves = @ + 1,
                        !.timers = after(@, Callback("animate_rocket", rocket, x,
                                                     NextY(y_start), y_target,
                                                     NoParticles))]
         ELSE explode(F, rocket, x, y_target, seed) :
            F \in {[S EXCEPT !.rlog[rocket].ys = Append(@, y_start)]}})

\* the rocket of create_rocket on the canvas, and its history
NewRocket(S, x, y_start, y_target) ==
    LET rocket == S.nextId
        c == canvas_create_oval(S.canvas, rocket,
                                (x - RocketHalfWidth) * Scale,
                                (y_start - RocketHalfHeight) * Scale,
                                (x + RocketHalfWidth) * Scale,
                                (y_start + RocketHalfHeight) * Scale, "white")
        L == [r \in DOMAIN S.rlog \cup {rocket} |->
                 IF r = rocket
                 THEN [x |-> x, y_spawn |-> y_start, y_target |-> y_target,
                       ys |-> <<>>, moves |-> 0, explodes |-> 0, deletes |-> 0,
                       ex |-> 0, ey |-> 0]
                 ELSE S.rlog[r]]
    IN  [S EXCEPT !.canvas = c, !.nextId = @ + 1, !.rlog = L]

\* x and y_target are the two draws of random.randint
create_rocket(S, x, y_target, seed) ==
    The({animate_rocket(N, S.nextId, x, S.height, y_target, seed) :
            N \in {NewRocket(S, x, S.height, y_target)}})

start_fireworks_Once(S, x, y_target, seed) == create_rocket(S, x, y_target, seed)

start_fireworks(S, x, y_target, seed) ==
    The({[R EXCEPT !.timers = after(@, StartFireworksCb)] :
            R \in {create_rocket(S, x, y_target, seed)}})

\* random.randint(100, self.width - 100) raises ValueError on an empty range
SpawnRangeValid(w) == SpawnMargin <= w - SpawnMargin

(***************************************************************************)
(* Initial state: after FireworksApp(resolution), before run().            *)
(***************************************************************************)
Seeds == 0 .. NumSeeds - 1

Init ==
    /\ \E resolution \in DOMAIN resolutions \cup {"other"}, mon \in Monitors :
          /\ width = FitToScreen(resolutions_get(resolution), mon)[1]
          /\ height = FitToScreen(resolutions_get(resolution), mon)[2]
    /\ canvas = << >>
    /\ nextId = 1
    /\ timers = EmptyBag
    /\ pc = "init"
    /\ faulted = FALSE
    /\ rlog = << >>
    /\ plog = << >>
    /\ picks = 0

(***************************************************************************)
(* Handlers.                                                               *)
(***************************************************************************)
\* run(): start_fireworks(), then mainloop(); an exception of the first
\* start_fireworks leaves run before mainloop is entered.  xs, targets and
\* seeds are the values the random source may return.
RunWith(xs, targets, seeds) ==
    /\ pc = "init"
    /\ IF SpawnRangeValid(width)
       THEN /\ \E x \in xs, y_target \in targets, seed \in seeds, S \in {Here} :
                   Apply(start_fireworks(S, x, y_target, seed))
            /\ pc' = "mainloop"
            /\ UNCHANGED <<faulted, picks>>
       ELSE /\ pc' = "crashed"
            /\ UNCHANGED <<width, height, canvas, nextId, timers, faulted, rlog, plog,
                           picks>>

Run ==
    RunWith(randint(SpawnMargin, width - SpawnMargin), randint(TargetMin, TargetMax), Seeds)

StartFireworks_RescheduleFirst ==
    /\ pc = "mainloop"
    /\ StartFireworksCb \in Pending("start_fireworks")
    /\ Cardinality(DOMAIN rlog) < MaxRockets
    /\ IF SpawnRangeValid(width)
       THEN /\ \E x \in randint(SpawnMargin, width - SpawnMargin),
                  y_target \in randint(TargetMin, TargetMax), seed \in Seeds,
                  S \in {[Here EXCEPT !.timers = Taken(@, StartFireworksCb)]} :
                   Apply(start_fireworks(S, x, y_target, seed))
            /\ UNCHANGED <<pc, faulted, picks>>
       ELSE /\ faulted' = TRUE
            /\ UNCHANGED <<width, height, canvas, nextId, timers, pc, rlog, plog, picks>>

\* the start_fireworks callback of root.after(1000, self.start_fireworks)
StartFireworks ==
    /\ pc = "mainloop"
    /\ StartFireworksCb \in Pending("start_fireworks")
    /\ Cardinality(DOMAIN rlog) < MaxRockets
    /\ IF SpawnRangeValid(width)
       THEN /\ \E x \in randint(SpawnMargin, width - SpawnMargin),
                  y_target \in randint(TargetMin, TargetMax), seed \in Seeds,
                  S \in {[Here EXCEPT !.timers = Taken(@, StartFireworksCb)]} :
                   Apply(start_fireworks(S, x, y_target, seed))
            /\ UNCHANGED <<pc, faulted, picks>>
       ELSE /\ timers' = Taken(timers, StartFireworksCb)
            /\ faulted' = TRUE
            /\ UNCHANGED <<width, height, canvas, nextId, pc, rlog, plog, picks>>

\* an animate_rocket callback of root.after(30, self.animate_rocket, ...)
AnimateRocketWith(seeds) ==
    /\ pc = "mainloop"
    /\ \E cb \in Pending("animate_rocket"), seed \in seeds :
          \E S \in {[Here EXCEPT !.timers = Taken(@, cb)]} :
              Apply(animate_rocket(S, cb.rocket, cb.x, cb.y_start, cb.y_target, seed))
    /\ UNCHANGED <<pc, faulted, picks>>

AnimateRocket == AnimateRocketWith(Seeds)

\* an animate_explosion callback of root.after(50, self.animate_explosion, ...)
AnimateExplosion ==
    /\ pc = "mainloop"
    /\ \E cb \in Pending("animate_explosion") :
          \E S \in {[Here EXCEPT !.timers = Taken(@, cb)]} :
              Apply(animate_explosion(S, cb.particles))
    /\ UNCHANGED <<pc, faulted, picks>>

\* the sizes change_resolution can set: resolutions[selected_resolution]
\* fitted to the monitor screeninfo reports at that moment
SelectableSizes ==
    {FitToScreen(resolutions[selected_resolution], mon) :
        selected_resolution \in DOMAIN resolutions, mon \in Monitors}

ChangeResolution_Restart ==
    /\ pc = "mainloop"
    /\ picks < MaxResolutionChanges
    /\ picks' = picks + 1
    /\ \E size \in SelectableSizes :
          /\ width' = size[1]
          /\ height' = size[2]
    /\ timers' = after(EmptyBag, StartFireworksCb)
    /\ UNCHANGED <<canvas, nextId, pc, faulted, rlog, plog>>

\* change_resolution(selected_resolution), the command of the option menu
ChangeResolution ==
    /\ pc = "mainloop"
    /\ picks < MaxResolutionChanges
    /\ picks' = picks + 1
    /\ \E size \in SelectableSizes :
          /\ width' = size[1]
          /\ height' = size[2]
    /\ UNCHANGED <<canvas, nextId, timers, pc, faulted, rlog, plog>>

Next ==
    \/ Run
    \/ StartFireworks
    \/ AnimateRocket
    \/ AnimateExplosion
    \/ ChangeResolution

Spec == Init /\ [][Next]_vars

\* the main loop runs a due animate_rocket callback sooner or later
FairSpec == Spec /\ WF_vars(AnimateRocket)

\* the first rocket alone, with the resolution menu: the spawn callback of
\* start_fireworks stays pending and is not run
OneRocketNext ==
    \/ Run
    \/ AnimateRocket
    \/ AnimateExplosion
    \/ ChangeResolution

\* the main loop runs a due animate_explosion callback sooner or later
FairExplosionSpec == Init /\ [][OneRocketNext]_vars /\ WF_vars(AnimateExplosion)

(***************************************************************************)
(* The scenarios of the specification: resolution "360P" on a screen of    *)
(* 900 x 700 (an 800 x 600 canvas) or of 250 x 170 (a 200 x 120 canvas),   *)
(* one rocket spawned in the middle of the canvas, target 150, 155 or      *)
(* 300, every particle of its explosion drawn at distance 50.              *)
(***************************************************************************)
ScenarioMonitors == {<<900, 700>>, <<250, 170>>}
ScenarioTargets == {150, 155, TargetMax}

ScenarioInit ==
    /\ \E mon \in ScenarioMonitors :
          /\ width = FitToScreen(resolutions_get("360P"), mon)[1]
          /\ height = FitToScreen(resolutions_get("360P"), mon)[2]
    /\ canvas = << >>
    /\ nextId = 1
    /\ timers = EmptyBag
    /\ pc = "init"
    /\ faulted = FALSE
    /\ rlog = << >>
    /\ plog = << >>
    /\ picks = 0

ScenarioRun == RunWith({width \div 2}, ScenarioTargets, ScenarioSeeds)

ScenarioRocket == AnimateRocketWith(ScenarioSeeds)

ScenarioNext ==
    \/ ScenarioRun
    \/ ScenarioRocket
    \/ AnimateExplosion

ScenarioSpec == ScenarioInit /\ [][ScenarioNext]_vars

(***************************************************************************)
(* The resolution menu on its own: every resolution on screens on which    *)
(* the resolution fits, fits in one dimension only, or does not fit; one   *)
(* rocket rises from the middle of the canvas meanwhile.                   *)
(***************************************************************************)
ResolutionMonitors == {<<4000, 2300>>, <<1400, 700>>, <<900, 700>>, <<250, 170>>}

ResolutionInitWith(resolution, mon) ==
    /\ width = FitToScreen(resolutions_get(resolution), mon)[1]
    /\ height = FitToScreen(resolutions_get(resolution), mon)[2]
    /\ canvas = << >>
    /\ nextId = 1
    /\ timers = EmptyBag
    /\ pc = "init"
    /\ faulted = FALSE
    /\ rlog = << >>
    /\ plog = << >>
    /\ picks = 0

ResolutionInit ==
    \E resolution \in DOMAIN resolutions \cup {"other"}, mon \in ResolutionMonitors :
        ResolutionInitWith(resolution, mon)

\* change_resolution(selected_resolution) on the monitor mon
ResolutionChangeWith(selected_resolution, mon) ==
    /\ pc = "mainloop"
    /\ picks < MaxResolutionChanges
    /\ picks' = picks + 1
    /\ width' = FitToScreen(resolutions[selected_resolution], mon)[1]
    /\ height' = FitToScreen(resolutions[selected_resolution], mon)[2]
    /\ UNCHANGED <<canvas, nextId, timers, pc, faulted, rlog, plog>>

ResolutionChange ==
    \E selected_resolution \in DOMAIN resolutions, mon \in ResolutionMonitors :
        ResolutionChangeWith(selected_resolution, mon)

ResolutionNext ==
    \/ ScenarioRun
    \/ ScenarioRocket
    \/ ResolutionChange

ResolutionSpec == ResolutionInit /\ [][ResolutionNext]_vars

(***************************************************************************)
(* Properties.                                                             *)
(***************************************************************************)
Rockets == DOMAIN rlog
Particles == DOMAIN plog
Last(q) == q[Len(q)]
Exploded(r) == rlog[r].explodes >= 1
ParticlesOf(r) == {p \in Particles : plog[p].rocket = r}
LiveParticlesOf(r) == ParticlesOf(r) \cap DOMAIN canvas
Range(q) == {q[i] : i \in 1 .. Len(q)}
ExplosionCallbacks == Pending("animate_explosion")
RocketCallbacks(r) == {cb \in Pending("animate_rocket") : cb.rocket = r}

\* C1: the tracked y of a rocket starts at the bottom edge and goes down by
\* exactly 10 from one animate_rocket frame to the next; every frame but the
\* last saw a y above the target; and the rocket's visual is absent from the
\* canvas exactly when the last frame saw a y at or below the target.
C1_RocketDescent ==
    \A r \in Rockets :
        LET ys == rlog[r].ys
        IN  /\ Len(ys) >= 1
            /\ ys[1] = rlog[r].y_spawn
            /\ \A i \in 1 .. Len(ys) - 1 :
                  /\ ys[i + 1] = ys[i] - 10
                  /\ ys[i] > rlog[r].y_target
            /\ (Last(ys) <= rlog[r].y_target) <=> (r \notin DOMAIN canvas)

\* a rocket that rose for two frames, reached its target and is gone
C1_Witness ==
    \E r \in Rockets :
        /\ Len(rlog[r].ys) >= 3
        /\ Last(rlog[r].ys) <= rlog[r].y_target
        /\ r \notin DOMAIN canvas

\* the explosion callback cb ran in this step: one of its particles was moved
\* or deleted
Stepped(cb) ==
    \E t \in Range(cb.particles) :
        /\ t[1] \in DOMAIN canvas
        /\ \/ t[1] \notin DOMAIN canvas'
           \/ canvas'[t[1]].moves # canvas[t[1]].moves

\* particle p is in a particle list scheduled for a later frame
KeptNext(p) ==
    \E cb \in BagToSet(timers') :
        /\ cb.fn = "animate_explosion"
        /\ \E t \in Range(cb.particles) : t[1] = p

\* the rule of C2 for one particle a frame went through; `before` is its
\* position before the move (empty when its visual was absent), in tenths
C2_Rule(p, dx, dy, before) ==
    LET absent == before = <<>>
        outside == IF absent THEN FALSE
                   ELSE ~ /\ 0 <= before[1] + dx /\ before[1] + dx <= 10 * width
                          /\ 0 <= before[2] + dy /\ before[2] + dy <= 10 * height
        removed == p \notin DOMAIN canvas'
    IN  /\ removed <=> (absent \/ outside)
        /\ KeptNext(p) <=> ~removed

\* C2: in every frame of animate_explosion (a callback, or the first frame that
\* explode runs itself) a particle is removed iff its position after the move
\* is outside [0, width] x [0, height] on some axis, the bounds counting as
\* inside, or its visual was absent before the move; otherwise it is in the
\* list scheduled for the next frame.
C2_RemovedIffOutside ==
    [][ /\ \A cb \in ExplosionCallbacks :
              Stepped(cb) =>
                  \A t \in Range(cb.particles) :
                      C2_Rule(t[1], t[2], t[3], canvas_coords(canvas, t[1]))
        /\ \A p \in DOMAIN plog' \ DOMAIN plog :
              C2_Rule(p, plog'[p].dx, plog'[p].dy, <<plog'[p].ox, plog'[p].oy>>)
      ]_vars

\* a particle that sits exactly on the upper bound y = 0 after ten frames is
\* still on the canvas, while a sibling of the same explosion has been removed
C2_Witness ==
    \E p, q \in Particles :
        /\ plog[p].rocket = plog[q].rocket
        /\ p \notin DOMAIN canvas
        /\ q \in DOMAIN canvas
        /\ canvas[q].moves = 10
        /\ canvas[q].coords[2] = 0

\* the canvas ids of a particle list
Ids(particles) == {t[1] : t \in Range(particles)}

\* explosions with at least one particle left
Active == {r \in Rockets : Exploded(r) /\ LiveParticlesOf(r) # {}}

\* explosion r has no frame pending
Done(r) ==
    /\ Exploded(r)
    /\ \A cb \in ExplosionCallbacks : \A p \in Ids(cb.particles) : plog[p].rocket # r

C3_Scheduling ==
    /\ \A cb \in ExplosionCallbacks :
          /\ CopiesIn(cb, timers) = 1
          /\ cb.particles # <<>>
          /\ \E r \in Active : Ids(cb.particles) = LiveParticlesOf(r)
    /\ \A r \in Active :
          \E cb \in ExplosionCallbacks : Ids(cb.particles) = LiveParticlesOf(r)
    /\ Cardinality(ExplosionCallbacks) = Cardinality(Active)
    /\ \A r \in Rockets : Done(r) <=> (Exploded(r) /\ LiveParticlesOf(r) = {})

\* C3: an explosion has a frame pending exactly while some of its particles
\* are left (one callback, holding exactly the particles left); it is DONE
\* exactly when none is left; and a DONE explosion stays DONE, with no frame
\* ever pending for it again.
C3_ExplosionLoop ==
    /\ [] C3_Scheduling
    /\ [][\A r \in Rockets : Done(r) => Done(r)']_vars

\* an explosion inside the canvas that ran its frames to the end, with no
\* change of resolution
C3_Witness ==
    \E r \in Rockets :
        /\ Done(r)
        /\ LiveParticlesOf(r) = {}
        /\ picks = 0
        /\ rlog[r].ey <= height

\* C4: every rocket whose explode has run has exactly 30 particles, created
\* with ids of their own, all at the explosion origin (x, y_target), each with
\* a colour of the palette and a velocity (dx, dy) with
\* 20 <= |(dx, dy)| <= 100; a rocket that has not exploded has none.
C4_ThirtyParticles ==
    \A r \in Rockets :
        /\ Cardinality(ParticlesOf(r)) = 30 * rlog[r].explodes
        /\ \A p \in ParticlesOf(r) :
              /\ plog[p].ox = 10 * rlog[r].ex
              /\ plog[p].oy = 10 * rlog[r].ey
              /\ plog[p].color \in
                    {"red", "orange", "yellow", "green", "blue", "purple", "white"}
              /\ 20 * 20 <= plog[p].dx * plog[p].dx + plog[p].dy * plog[p].dy
              /\ plog[p].dx * plog[p].dx + plog[p].dy * plog[p].dy <= 100 * 100
              /\ p \in DOMAIN canvas => canvas[p].fill = plog[p].color

\* an explosion has happened, and particles of the smallest and of the largest
\* speed were created
C4_Witness ==
    \E r \in Rockets :
        /\ rlog[r].explodes = 1
        /\ \E p, q \in ParticlesOf(r) :
              /\ plog[p].dx * plog[p].dx + plog[p].dy * plog[p].dy = 20 * 20
              /\ plog[q].dx * plog[q].dx + plog[q].dy * plog[q].dy = 100 * 100

\* C5: a particle on the canvas that has gone through k frames is at
\* origin + k * 0.1 * (dx, dy), where (dx, dy) is the velocity it was created
\* with and the one its particle list carries; all particles left of one
\* explosion have gone through the same number of frames.
C5_LinearMotion ==
    /\ \A p \in Particles \cap DOMAIN canvas :
          LET k == canvas[p].moves
          IN  /\ 10 * canvas[p].coords[1] = 10 * plog[p].ox + k * 10 * plog[p].dx
              /\ 10 * canvas[p].coords[2] = 10 * plog[p].oy + k * 10 * plog[p].dy
              /\ k >= 1
              /\ \A q \in LiveParticlesOf(plog[p].rocket) : canvas[q].moves = k
    /\ \A cb \in ExplosionCallbacks :
          \A t \in Range(cb.particles) :
              /\ t[1] \in Particles
              /\ t[2] = plog[t[1]].dx
              /\ t[3] = plog[t[1]].dy

\* a particle moving on both axes that has gone through five frames
C5_Witness ==
    \E p \in Particles \cap DOMAIN canvas :
        /\ canvas[p].moves = 5
        /\ plog[p].dx # 0
        /\ plog[p].dy # 0
        /\ canvas[p].coords[1] = plog[p].ox + 5 * plog[p].dx

\* the particle of the scenario: created at (400, 150) with velocity (50, 0)
ScenarioParticle(p) ==
    /\ plog[p].ox = 10 * 400 /\ plog[p].oy = 10 * 150
    /\ plog[p].dx = 50 /\ plog[p].dy = 0

\* a particle of the same explosion that falls straight down, 5 units per
\* frame: it is on the canvas up to its 90th frame and counts the frames
FrameCounters(p) ==
    {q \in LiveParticlesOf(plog[p].rocket) : plog[q].dx = 0 /\ plog[q].dy = 50}

\* C6 as stated: in the 800 x 600 canvas the particle (50, 0) from (400, 150)
\* is removed after 80 frames, so it is never on the canvas with 80 frames
\* behind it.
C6_RemovedAfter80 ==
    \A p \in Particles :
        (ScenarioParticle(p) /\ width = 800 /\ p \in DOMAIN canvas) => canvas[p].moves < 80

\* C6 as amended: the particle moves 5 units per frame; after 80 frames it is
\* at x = 800, which is inside; it is removed in its 81st frame, when x = 805
\* exceeds 800.
C6_RemovedAfter81 ==
    \A p \in Particles :
        (ScenarioParticle(p) /\ width = 800) =>
            /\ p \in DOMAIN canvas =>
                  /\ canvas[p].moves <= 80
                  /\ canvas[p].coords[1] = 10 * (400 + 5 * canvas[p].moves)
                  /\ canvas[p].coords[2] = 10 * 150
            /\ \A q \in FrameCounters(p) :
                  (canvas[q].moves >= 81) <=> (p \notin DOMAIN canvas)

\* the 81st frame has run and the particle is gone
C6_Witness ==
    \E p \in Particles :
        /\ ScenarioParticle(p) /\ width = 800
        /\ p \notin DOMAIN canvas
        /\ \E q \in FrameCounters(p) : canvas[q].moves = 81

\* ceil((y_start - y_target) / 10), and 0 when y_start <= y_target
MovesNeeded(y_start, y_target) ==
    IF y_start <= y_target THEN 0 ELSE (y_start - y_target + 9) \div 10

\* C7: a rocket makes at most ceil((y_start - y_target) / 10) moves of 10
\* units, one per frame, and has made exactly that many when it explodes (none
\* when y_start <= y_target); the rocket from 600 to target 150 explodes in
\* its 46th frame, after 45 moves, with y = 150.
C7_RocketMoves ==
    \A r \in Rockets :
        LET need == MovesNeeded(rlog[r].y_spawn, rlog[r].y_target)
        IN  /\ rlog[r].moves <= need
            /\ ~Exploded(r) =>
                  /\ rlog[r].moves = Len(rlog[r].ys)
                  /\ r \in DOMAIN canvas
                  /\ canvas[r].moves = rlog[r].moves
                  /\ canvas[r].coords[2] =
                        10 * (rlog[r].y_spawn - 10 - 10 * rlog[r].moves)
            /\ Exploded(r) =>
                  /\ rlog[r].moves = need
                  /\ Len(rlog[r].ys) = need + 1
            /\ (Exploded(r) /\ rlog[r].y_spawn = 600 /\ rlog[r].y_target = 150) =>
                  /\ rlog[r].moves = 45
                  /\ rlog[r].ys[46] = 150

\* the rocket of the scenario has exploded after its 45 moves
C7_Witness ==
    \E r \in Rockets :
        /\ rlog[r].y_spawn = 600 /\ rlog[r].y_target = 150 /\ rlog[r].x = 400
        /\ Exploded(r)
        /\ rlog[r].moves = 45

C8_Once ==
    \A r \in Rockets :
        /\ rlog[r].explodes <= 1
        /\ rlog[r].deletes = rlog[r].explodes
        /\ Exploded(r) <=> Last(rlog[r].ys) <= rlog[r].y_target
        /\ Exploded(r) => r \notin DOMAIN canvas /\ RocketCallbacks(r) = {}
        /\ ~Exploded(r) => r \in DOMAIN canvas /\ ParticlesOf(r) = {}

\* C8: explode has run at most once for a rocket and has deleted its visual
\* exactly once; it has run exactly when a frame saw y <= target (never while
\* the rocket is rising); and after it neither a frame of animate_rocket nor
\* explode runs for that rocket again.
C8_OneExplosion ==
    /\ [] C8_Once
    /\ [][\A r \in Rockets : Exploded(r) => rlog'[r] = rlog[r]]_vars

\* one rocket has risen and exploded while another one is still rising
C8_Witness ==
    \E r1, r2 \in Rockets :
        /\ rlog[r1].explodes = 1 /\ rlog[r1].deletes = 1 /\ rlog[r1].moves >= 1
        /\ ~Exploded(r2) /\ rlog[r2].moves >= 1

C9_Pending ==
    (pc = "mainloop" /\ ~faulted) =>
        /\ Pending("start_fireworks") = {StartFireworksCb}
        /\ CopiesIn(StartFireworksCb, timers) = 1
        /\ Rockets # {}
        /\ Cardinality(Rockets) < MaxRockets => ENABLED StartFireworks

\* C9: inside the main loop, as long as no spawn has hit an invalid range,
\* exactly one start_fireworks callback is pending, whatever rockets and
\* explosions are live; it can run (up to the bound on rockets of the model),
\* and a step that spawns adds exactly one rocket, whose first frame has run.
C9_SpawnLoop ==
    /\ [] C9_Pending
    /\ [][ DOMAIN rlog' # DOMAIN rlog =>
              /\ Cardinality(DOMAIN rlog') = Cardinality(DOMAIN rlog) + 1
              /\ DOMAIN rlog \subseteq DOMAIN rlog'
              /\ \A r \in DOMAIN rlog' \ DOMAIN rlog : Len(rlog'[r].ys) = 1
              /\ CopiesIn(StartFireworksCb, timers') = 1 ]_vars

\* a second rocket was spawned while the first one's explosion and the second
\* rocket itself are live, and the next spawn is pending
C9_Witness ==
    /\ Cardinality(Rockets) = 2
    /\ \E r1, r2 \in Rockets : Active = {r1} /\ RocketCallbacks(r2) # {}
    /\ CopiesIn(StartFireworksCb, timers) = 1

C10_Loop ==
    \A r \in Rockets :
        /\ ~Exploded(r) =>
              /\ Cardinality(RocketCallbacks(r)) = 1
              /\ \A cb \in RocketCallbacks(r) :
                    /\ CopiesIn(cb, timers) = 1
                    /\ cb.y_start = Last(rlog[r].ys) - 10
                    /\ cb.y_target = rlog[r].y_target
                    /\ cb.x = rlog[r].x
        /\ RocketCallbacks(r) = {} <=> Last(rlog[r].ys) <= rlog[r].y_target

AllExploded == \A r \in Rockets : Exploded(r)

\* C10: a rocket that has not exploded has exactly one animate_rocket callback
\* pending, for its next y; its loop has stopped exactly when a frame saw
\* y <= target; and when due animate_rocket callbacks keep being run, every
\* spawned rocket explodes.
C10_NoAbandonedRocket ==
    /\ [] C10_Loop
    /\ []<> AllExploded

\* two rockets were spawned, rose, and both have exploded
C10_Witness ==
    /\ Cardinality(Rockets) = 2
    /\ \A r \in Rockets : Exploded(r) /\ rlog[r].moves >= 2

\* C11: a step of change_resolution changes nothing but width and height:
\* the canvas items (rocket and particle positions), the pending callbacks
\* with their arguments (targets, particle lists, velocities, the spawn
\* callback) and the handles handed out are the same after it as before.
C11_ResolutionFrame ==
    [][picks' # picks => UNCHANGED <<canvas, timers, nextId, rlog, plog, pc, faulted>>]_vars

\* a rocket spawned at height 120 still rises and an explosion still runs
\* after the window was changed to 190 x 80
C11_Witness ==
    /\ picks >= 1
    /\ width = 190 /\ height = 80
    /\ \E r \in Rockets : rlog[r].y_spawn = 120 /\ RocketCallbacks(r) # {}
    /\ ExplosionCallbacks # {}
    /\ Pending("start_fireworks") # {}

\* C12: the table of named resolutions is the one stated, and a resolution
\* selected at startup or at runtime on a screen of sw x sh gives the width
\* min(resolution width, sw - 50) and the height min(resolution height,
\* sh - 50); "360P" on a screen of at least 900 x 700 gives 800 x 600.
C12_Table ==
    [n \in {"360P", "HD", "FULLHD", "2K", "4K"} |->
        CASE n = "360P" -> <<800, 600>>
          [] n = "HD" -> <<1280, 720>>
          [] n = "FULLHD" -> <<1920, 1080>>
          [] n = "2K" -> <<2560, 1440>>
          [] n = "4K" -> <<3840, 2160>>]

C12_Expected(n, mon) ==
    /\ width = (IF C12_Table[n][1] <= mon[1] - 50 THEN C12_Table[n][1] ELSE mon[1] - 50)
    /\ height = (IF C12_Table[n][2] <= mon[2] - 50 THEN C12_Table[n][2] ELSE mon[2] - 50)
    /\ (n = "360P" /\ mon[1] >= 900 /\ mon[2] >= 700) => (width = 800 /\ height = 600)

C12_ResolutionClamp ==
    /\ DOMAIN resolutions = DOMAIN C12_Table
    /\ \A n \in DOMAIN C12_Table, mon \in ResolutionMonitors :
          ResolutionInitWith(n, mon) => C12_Expected(n, mon)
    /\ [][\A n \in DOMAIN C12_Table, mon \in ResolutionMonitors :
             ResolutionChangeWith(n, mon) => C12_Expected(n, mon)']_vars

\* the application started at 800 x 600 ("360P" on a screen it fits on), its
\* rocket was spawned at that height, and a runtime selection then gave
\* 1280 x 650: "HD" on the 1400 x 700 screen, clamped in height only
C12_Witness ==
    /\ picks = 1
    /\ \E r \in Rockets : rlog[r].y_spawn = 600
    /\ width = 1280 /\ height = 650

\* the (particle, dx, dy) triples of explosion r in the particle lists
\* scheduled for a later frame
ScheduledOf(r) ==
    {t \in UNION {Range(cb.particles) : cb \in ExplosionCallbacks} : plog[t[1]].rocket = r}

\* C13: from one step to the next, the particles of an explosion that are
\* scheduled for a later frame are among those that were scheduled before the
\* step, with the same velocities; and a particle that was removed from the
\* canvas is in no list scheduled after that.
C13_ParticlesOnlyLeave ==
    [][ /\ \A r \in Rockets : Exploded(r) => ScheduledOf(r)' \subseteq ScheduledOf(r)
        /\ \A r \in Rockets' :
              \A t \in ScheduledOf(r)' : t[1] \in DOMAIN canvas'
      ]_vars

\* an explosion, several frames on, that has lost some of its particles and
\* still has others scheduled
C13_Witness ==
    \E r \in Rockets :
        /\ Exploded(r)
        /\ ScheduledOf(r) # {}
        /\ Cardinality(ScheduledOf(r)) < Cardinality(ParticlesOf(r))
        /\ \E t \in ScheduledOf(r) : canvas[t[1]].moves >= 3

C14_Fixed ==
    /\ \A p \in Particles \cap DOMAIN canvas :
          /\ canvas[p].fill = plog[p].color
          /\ canvas[p].coords[3] - canvas[p].coords[1] = ParticleSize * Scale
          /\ canvas[p].coords[4] - canvas[p].coords[2] = ParticleSize * Scale
    /\ \A cb \in ExplosionCallbacks :
          \A t \in Range(cb.particles) : t[2] = plog[t[1]].dx /\ t[3] = plog[t[1]].dy
    /\ \A r \in Rockets :
          /\ \A cb \in RocketCallbacks(r) : cb.x = rlog[r].x /\ cb.y_target = rlog[r].y_target
          /\ r \in DOMAIN canvas =>
                /\ canvas[r].coords[1] = (rlog[r].x - RocketHalfWidth) * Scale
                /\ canvas[r].coords[3] = (rlog[r].x + RocketHalfWidth) * Scale
                /\ canvas[r].fill = "white"

\* C14: the colour of a particle on the canvas and the velocity it carries in
\* a scheduled particle list are the ones explode gave it, in every state and
\* through every step, during which only its position changes; the x and the
\* target of a rocket in its pending frame, and the x of its visual, are the
\* ones create_rocket drew.
C14_CreationValuesKept ==
    /\ [] C14_Fixed
    /\ [][ /\ \A p \in Particles :
                 /\ plog'[p] = plog[p]
                 /\ (p \in DOMAIN canvas /\ p \in DOMAIN canvas') =>
                        canvas'[p].fill = canvas[p].fill
           /\ \A r \in Rockets :
                 rlog'[r].x = rlog[r].x /\ rlog'[r].y_target = rlog[r].y_target
         ]_vars

\* a particle that moved four times and a rocket that moved twice, both still
\* under way
C14_Witness ==
    /\ \E cb \in ExplosionCallbacks :
          \E t \in Range(cb.particles) : canvas[t[1]].moves >= 4 /\ t[3] # 0
    /\ \E r \in Rockets : RocketCallbacks(r) # {} /\ rlog[r].moves >= 2

\* what belongs to rocket r and its explosion: their visuals, the pending
\* animate_rocket callback and the pending explosion frame with its list
EntityState(r) ==
    [visuals |-> [i \in ({r} \cup ParticlesOf(r)) \cap DOMAIN canvas |-> canvas[i]],
     rocket |-> [cb \in RocketCallbacks(r) |-> CopiesIn(cb, timers)],
     frames |-> [cb \in {f \in ExplosionCallbacks :
                           \E t \in Range(f.particles) : plog[t[1]].rocket = r}
                   |-> CopiesIn(cb, timers)]]

\* where particle p is after j frames, in tenths, and whether that is inside
C15_At(p, j) == <<plog[p].ox + j * plog[p].dx, plog[p].oy + j * plog[p].dy>>
C15_Inside(p, j) ==
    /\ 0 <= C15_At(p, j)[1] /\ C15_At(p, j)[1] <= width * Scale
    /\ 0 <= C15_At(p, j)[2] /\ C15_At(p, j)[2] <= height * Scale

\* with the window dimensions never changed, the state of each entity is the
\* one it has on its own after as many frames of its own
C15_AsAlone ==
    picks = 0 =>
        \A r \in Rockets :
            /\ ~Exploded(r) =>
                  /\ canvas[r].coords[2] =
                        (rlog[r].y_spawn - RocketHalfHeight - RocketStep * rlog[r].moves) * Scale
                  /\ \A cb \in RocketCallbacks(r) :
                        cb.y_start = rlog[r].y_spawn - RocketStep * rlog[r].moves
            /\ LiveParticlesOf(r) # {} =>
                  LET n == canvas[CHOOSE q \in LiveParticlesOf(r) : TRUE].moves
                  IN  \A p \in ParticlesOf(r) :
                          IF p \in DOMAIN canvas
                          THEN /\ \A j \in 1 .. n : C15_Inside(p, j)
                               /\ canvas[p].moves = n
                               /\ <<canvas[p].coords[1], canvas[p].coords[2]>> = C15_At(p, n)
                          ELSE \E j \in 1 .. n : ~C15_Inside(p, j)

\* C15: a step changes what belongs to at most one rocket and its explosion
\* and leaves every other rocket and explosion as it was, whatever the order
\* in which the callbacks run; and while the window dimensions stay as they
\* were at the start, each entity is in the state that the number of its own
\* frames determines.
C15_Independent ==
    /\ [] C15_AsAlone
    /\ [][\A r, q \in Rockets :
             (r # q /\ EntityState(r)' # EntityState(r)) => EntityState(q)' = EntityState(q)
         ]_vars

\* a second rocket is rising while the explosion of the first is several
\* frames on, and the first explosion has frames of both behind it
C15_Witness ==
    /\ picks = 0
    /\ \E r, q \in Rockets :
          /\ Exploded(r) /\ ~Exploded(q)
          /\ rlog[q].moves >= 2
          /\ \E p \in LiveParticlesOf(r) : canvas[p].moves >= 3
          /\ LiveParticlesOf(r) # ParticlesOf(r)

\* C16: the explosion of a rocket is at (x, y_target), x being the x the
\* rocket was spawned at: explode was called with that point and each of the
\* 30 particles was created there; the y the rocket tracked when explode was
\* called is at or below (numerically <=) the target, and less than 10 past
\* it if the rocket moved at all.
C16_ExplosionPoint ==
    \A r \in Rockets :
        Exploded(r) =>
            /\ rlog[r].ex = rlog[r].x
            /\ rlog[r].ey = rlog[r].y_target
            /\ \A p \in ParticlesOf(r) :
                  /\ plog[p].ox = rlog[r].x * Scale
                  /\ plog[p].oy = rlog[r].y_target * Scale
            /\ Last(rlog[r].ys) <= rlog[r].y_target
            /\ rlog[r].moves >= 1 => Last(rlog[r].ys) > rlog[r].y_target - RocketStep

\* a rocket that moved and overshot its target: it exploded with a tracked y
\* strictly past the target
C16_Witness ==
    \E r \in Rockets :
        /\ Exploded(r)
        /\ rlog[r].moves >= 1
        /\ Last(rlog[r].ys) < rlog[r].y_target
        /\ ParticlesOf(r) # {}

\* no explosion has a frame pending
AllDone == \A r \in Rockets : Exploded(r) => Done(r)

\* every particle was created with a velocity of magnitude at least 20
C17_Moving ==
    \A p \in Particles :
        plog[p].dx * plog[p].dx + plog[p].dy * plog[p].dy >= DistanceMin * DistanceMin

\* C17: every particle has a velocity of magnitude at least 20, and when due
\* animate_explosion callbacks keep being run, every explosion reaches the
\* point where all its particles have left the canvas and no frame of it is
\* pending.
C17_ExplosionsEnd ==
    /\ [] C17_Moving
    /\ []<> AllDone

\* an explosion inside the canvas, whose slowest particles took more than ten
\* frames to leave after the window was changed, has ended
C17_Witness ==
    \E r \in Rockets :
        /\ Done(r)
        /\ picks = 1
        /\ rlog[r].ey <= height
        /\ \E p \in ParticlesOf(r) :
              plog[p].dx * plog[p].dx + plog[p].dy * plog[p].dy = DistanceMin * DistanceMin

\* the position after its next move of the particle of triple t, in tenths,
\* is outside the window as it is now
C18_OutsideNow(t) ==
    LET nx == canvas[t[1]].coords[1] + t[2]
        ny == canvas[t[1]].coords[2] + t[3]
    IN  ~ (0 <= nx /\ nx <= width * Scale /\ 0 <= ny /\ ny <= height * Scale)

\* the largest distance a particle covers on one axis in one frame, in tenths
C18_Reach == DistanceMax

\* C18: a frame of animate_explosion removes exactly the particles whose
\* position after the move is outside the window as it is when the frame runs;
\* and an explosion whose origin is outside that window by more than one
\* frame's reach loses its 30 particles in the frame that explode runs and has
\* no frame scheduled.
C18_CurrentBounds ==
    [][ /\ \A cb \in ExplosionCallbacks :
              Stepped(cb) =>
                  \A t \in Range(cb.particles) :
                      t[1] \in DOMAIN canvas =>
                          (t[1] \notin DOMAIN canvas' <=> C18_OutsideNow(t))
        /\ \A r \in Rockets :
              ( /\ ~Exploded(r)
                /\ Exploded(r)'
                /\ \/ rlog[r].y_target * Scale > height * Scale + C18_Reach
                   \/ rlog[r].x * Scale > width * Scale + C18_Reach )
              => /\ Cardinality(ParticlesOf(r)') = NumParticles
                 /\ LiveParticlesOf(r)' = {}
                 /\ Done(r)'
      ]_vars

\* the window was shrunk to height 80 while an explosion at y = 100 was under
\* way: a particle that every earlier frame had kept inside 190 x 115 has been
\* removed at a y between 80 and 115, while a sibling that had risen above 80
\* is still there; and another explosion, whose origin was inside the window
\* its rocket was spawned in and is below the new bottom edge, has no particle
\* left
C18_Witness ==
    /\ height = 80
    /\ \E r \in Rockets, q, p \in Particles :
          /\ Exploded(r)
          /\ rlog[r].y_spawn > rlog[r].y_target
          /\ plog[q].rocket = r /\ plog[p].rocket = r
          /\ q \in DOMAIN canvas /\ canvas[q].moves >= 3
          /\ p \notin DOMAIN canvas
          /\ \A j \in 1 .. canvas[q].moves :
                /\ 0 <= C15_At(p, j)[1] /\ C15_At(p, j)[1] <= 190 * Scale
                /\ 0 <= C15_At(p, j)[2] /\ C15_At(p, j)[2] <= 115 * Scale
          /\ C15_At(p, canvas[q].moves)[2] > 80 * Scale
    /\ \E r \in Rockets :
          /\ Done(r)
          /\ rlog[r].y_spawn > rlog[r].y_target
          /\ rlog[r].y_target * Scale > height * Scale + C18_Reach

\* C19: every particle in a particle list scheduled for a later frame has its
\* visual on the canvas, occurs once in that list, and is in no other
\* scheduled list, of which there is one copy pending; so a frame never finds
\* the visual of a particle of its list absent.
C19_ScheduledParticlesLive ==
    \A cb \in ExplosionCallbacks :
        /\ CopiesIn(cb, timers) = 1
        /\ \A i \in 1 .. Len(cb.particles) :
              /\ cb.particles[i][1] \in DOMAIN canvas
              /\ \A j \in 1 .. Len(cb.particles) :
                    cb.particles[j][1] = cb.particles[i][1] => j = i
        /\ \A other \in ExplosionCallbacks \ {cb} :
              Ids(other.particles) \cap Ids(cb.particles) = {}

\* two explosions have frames pending at once, each having lost particles
C19_Witness ==
    \E cb, other \in ExplosionCallbacks :
        /\ cb # other
        /\ Len(cb.particles) < NumParticles
        /\ Len(other.particles) < NumParticles
        /\ \E t \in Range(cb.particles) : canvas[t[1]].moves >= 2

\* the start_fireworks callbacks pending
C20_Spawns == CopiesIn(StartFireworksCb, timers)

\* C20: while the width is below 200 no rocket is created, and a step that
\* takes the spawn callback off the queue then is a fault that puts nothing
\* back and changes nothing else: rockets, particles, their callbacks and the
\* window stay as they were; from then on no start_fireworks callback is
\* pending and no rocket is created, whatever the width becomes.  A fault of
\* the first spawn, before the main loop, leaves nothing created at all.
C20_SpawnFault ==
    /\ [] (faulted => C20_Spawns = 0)
    /\ [] (pc = "crashed" => (width < 2 * SpawnMargin /\ canvas = << >> /\ timers = EmptyBag))
    /\ [][ /\ width < 2 * SpawnMargin => Rockets' = Rockets
           /\ (width < 2 * SpawnMargin /\ C20_Spawns' < C20_Spawns) =>
                 /\ faulted'
                 /\ C20_Spawns' = 0
                 /\ timers' = Taken(timers, StartFireworksCb)
                 /\ UNCHANGED <<width, height, canvas, nextId, rlog, plog>>
           /\ faulted => (faulted' /\ Rockets' = Rockets)
           /\ (~faulted /\ faulted') => width < 2 * SpawnMargin
         ]_vars

\* the spawn faulted at width 190 while a rocket was rising: the rocket then
\* went on, exploded, and its explosion is under way, with no spawn pending
C20_Witness ==
    /\ faulted
    /\ width = 190
    /\ C20_Spawns = 0
    /\ \E r \in Rockets :
          /\ Exploded(r)
          /\ rlog[r].moves >= 2
          /\ \E p \in LiveParticlesOf(r) : canvas[p].moves >= 2

=============================================================================
